---- MODULE Spec2Model ----
(***************************************************************************)
(* Model of app/models/user.server.model.js: the field validators, the     *)
(* pre-save hook with hashPassword / authenticate, and the static          *)
(* findUniqueUsername.                                                     *)
(*                                                                         *)
(* Strings are sequences of one-character strings.  The output of          *)
(* crypto.pbkdf2Sync(...).toString('base64') is the tuple                  *)
(* <<"pbkdf2", password, salt, iterations, keylen>>: a string of HashLen    *)
(* characters that is determined by, and determines, its arguments.        *)
(***************************************************************************)
EXTENDS Integers, Sequences, FiniteSets, TLC

VARIABLES
  provider,     \* this.provider
  updated,      \* this.updated is set (a Date) or not
  password,     \* this.password
  salt,         \* this.salt: NoSalt when undefined, else the random bytes drawn
  email,        \* this.email
  emailHash,    \* this.emailHash
  rawAssigned,  \* the value last assigned to this.password by a caller
  savesSince,   \* saves of the record since that assignment
  saves,        \* saves of the record in all
  authLog,      \* the last authenticate call and what it returned, if still current
  hashLog,      \* the last hashPassword call and what it returned, if still current
  emailAssigned,\* the value last assigned to this.email by a caller, before the setters
  value,        \* the argument handed to a validator
  verdict,      \* the validators run on value and what each returned
  storage,      \* usernames of the stored User records
  pc,           \* per findUniqueUsername call: "idle", "waiting", "done"
  base,         \* per call: the username argument
  request,      \* per call: the findOne queries issued and not yet answered,
                \* each the closure (username, suffix) of its invocation
  reply,        \* per call: the findOne answers not yet handled by the callback
  result,       \* per call: the values handed to callback, in order
  probes,       \* per call: every username queried, in the order of the queries
  answers,      \* per call: every answer handled, in the order handled
  startStorage, \* per call: the storage at the time of the call
  inserts,      \* usernames added to the storage since the initial state
  concurrent    \* a findUniqueUsername call began while another was running

recordVars    == <<provider, updated, password, salt, email, emailHash,
                   rawAssigned, savesSince, saves, authLog, hashLog,
                   emailAssigned>>
validatorVars == <<value, verdict>>
allocVars     == <<storage, pc, base, request, reply, result, probes,
                   answers, startStorage, inserts, concurrent>>
vars          == <<provider, updated, password, salt, email, emailHash,
                   rawAssigned, savesSince, saves, authLog, hashLog,
                   emailAssigned, value, verdict,
                   storage, pc, base, request, reply, result, probes,
                   answers, startStorage, inserts, concurrent>>

----------------------------------------------------------------------------
(* Bounds of the model *)

MaxShort == 4      \* validator arguments: every string over ProbeChars this long
MaxLen == 33       \* validator arguments: runs of "a" up to this length
MaxPwLen == 8      \* raw passwords assigned to the record: lengths up to MaxPwLen
MaxSaves == 2      \* saves of one record
NumSalts == 2      \* distinct outcomes of crypto.randomBytes(16)
MaxEmailLen == 2   \* e-mail values assigned to the record
MaxSuffix == 3     \* stored usernames: each base alone and with suffixes 1..MaxSuffix
MaxInserts == 1    \* usernames other requests add to the storage

----------------------------------------------------------------------------
(* Strings *)

Lower  == {"a", "b", "c", "d", "e", "f", "g", "h", "i", "j", "k", "l", "m",
           "n", "o", "p", "q", "r", "s", "t", "u", "v", "w", "x", "y", "z"}
Digits == {"0", "1", "2", "3", "4", "5", "6", "7", "8", "9"}

Fill(c, n) == [i \in 1..n |-> c]

StringsOver(chars, n) == UNION {[1..k -> chars] : k \in 0..n}

Providers == {"local", "facebook"}

----------------------------------------------------------------------------
(* Validators, lines 13-41 *)

(* Mutant: the leniency for other providers no longer ends once updated is set *)
validateLocalStrategyPropertyAlwaysLenient(this_provider, this_updated, property) ==
  this_provider # "local" \/ Len(property) # 0

(* Mutant: the leniency for other providers begins once updated is set *)
validateLocalStrategyPropertyGrandfathered(this_provider, this_updated, property) ==
  (this_provider # "local" /\ this_updated) \/ Len(property) # 0

validateLocalStrategyProperty(this_provider, this_updated, property) ==
  (this_provider # "local" /\ ~this_updated) \/ Len(property) # 0

PasswordMinLen == 8

(* The key of pbkdf2Sync is 64 bytes; its base64 text is 4 * ceil(64 / 3) long. *)
KeyLen == 64
HashLen == 4 * ((KeyLen + 2) \div 3)

IsHash(v) == Len(v) = 5 /\ v[1] = "pbkdf2"

(* String.prototype.length of a password value *)
Length(v) == IF IsHash(v) THEN 4 * ((v[5] + 2) \div 3) ELSE Len(v)

(* Mutant: the validator demands only as many characters as the hook leaves *)
(* unhashed                                                                *)
validateLocalStrategyPasswordLax(this_provider, pw) ==
  this_provider # "local" \/ (pw # <<>> /\ Length(pw) >= 6)

(* Mutant: more than PasswordMinLen characters are demanded *)
validateLocalStrategyPasswordStrict(this_provider, pw) ==
  this_provider # "local" \/ (pw # <<>> /\ Length(pw) > PasswordMinLen)

validateLocalStrategyPassword(this_provider, pw) ==
  this_provider # "local" \/ (pw # <<>> /\ Length(pw) >= PasswordMinLen)

UsernameMinLen == 3
UsernameMaxLen == 32
UsernameChars == Lower \cup Digits \cup {".", "-", "_"}

(* /^[a-z0-9.\-_]{3,32}$/.test(username) *)
usernameRegex(username) ==
  /\ Len(username) >= UsernameMinLen
  /\ Len(username) <= UsernameMaxLen
  /\ \A i \in 1..Len(username) : username[i] \in UsernameChars

(* /^([^.]+\.?)$/.test(username): one or more characters other than a dot, *)
(* then at most one dot, then the end of the string.                       *)
dotsRegex(username) ==
  \E k \in 1..Len(username) :
    /\ \A i \in 1..k : username[i] # "."
    /\ \/ k = Len(username)
       \/ k + 1 = Len(username) /\ username[k + 1] = "."

illegalUsernames ==
  << <<"t", "r", "u", "s", "t", "r", "o", "o", "t", "s">>,
     <<"t", "r", "u", "s", "t">>,
     <<"r", "o", "o", "t", "s">>,
     <<"r", "e">>,
     <<"r", "e", ":">>,
     <<"f", "w", "d">>,
     <<"f", "w", "d", ":">>,
     <<"r", "e", "p", "l", "y">>,
     <<"a", "d", "m", "i", "n">>,
     <<"a", "d", "m", "i", "n", "i", "s", "t", "r", "a", "t", "o", "r">>,
     <<"u", "s", "e", "r">>,
     <<"p", "a", "s", "s", "w", "o", "r", "d">>,
     <<"u", "s", "e", "r", "n", "a", "m", "e">>,
     <<"u", "n", "k", "n", "o", "w", "n">>,
     <<"a", "n", "o", "n", "y", "m", "o", "u", "s">>,
     <<"h", "o", "m", "e">>,
     <<"s", "i", "g", "n", "u", "p">>,
     <<"s", "i", "g", "n", "i", "n">>,
     <<"e", "d", "i", "t">>,
     <<"s", "e", "t", "t", "i", "n", "g", "s">>,
     <<"p", "a", "s", "s", "w", "o", "r", "d">>,
     <<"u", "s", "e", "r", "n", "a", "m", "e">>,
     <<"u", "s", "e", "r">>,
     <<" ", "d", "e", "m", "o">>,
     <<"t", "e", "s", "t">> >>

(* Array.prototype.indexOf: the first index (from 0) holding x, or -1 *)
indexOf(list, x) ==
  IF \E i \in 1..Len(list) : list[i] = x
  THEN (CHOOSE i \in 1..Len(list) :
          list[i] = x /\ \A j \in 1..(i - 1) : list[j] # x) - 1
  ELSE -1

validateUsername(this_provider, username) ==
  \/ this_provider # "local"
  \/ /\ /\ username # <<>>
        /\ usernameRegex(username)
        /\ indexOf(illegalUsernames, username) < 0
     /\ dotsRegex(username)

----------------------------------------------------------------------------
(* The validators applied to arguments drawn from Values *)

ProbeChars == {"a", ".", "_", "A"}

Values ==
  StringsOver(ProbeChars, MaxShort)
    \cup {Fill("a", n) : n \in 0..MaxLen}
    \cup {Fill("a", n) \o <<".">> : n \in 1..(MaxLen - 1)}
    \cup {illegalUsernames[i] : i \in 1..Len(illegalUsernames)}
    \cup {<<"a", "d", "m", "i", "n", "s">>, <<"a", "-", "b", "0">>}

NoVerdict == [property |-> "none", password |-> "none", username |-> "none"]

Verdict(b) == IF b THEN "pass" ELSE "fail"

(* validateLocalStrategyProperty as the validator of firstName, lastName and *)
(* email (lines 51, 57, 69)                                                 *)
ValidateProperty ==
  /\ verdict.property = "none"
  /\ verdict' = [verdict EXCEPT !.property =
                   Verdict(validateLocalStrategyProperty(provider, updated, value))]
  /\ UNCHANGED <<value, recordVars, allocVars>>

(* validateLocalStrategyPassword as the validator of password (line 114) *)
ValidatePassword ==
  /\ verdict.password = "none"
  /\ verdict' = [verdict EXCEPT !.password =
                   Verdict(validateLocalStrategyPassword(provider, value))]
  /\ UNCHANGED <<value, recordVars, allocVars>>

(* validateUsername as the validator of username (line 107) *)
ValidateUsername ==
  /\ verdict.username = "none"
  /\ verdict' = [verdict EXCEPT !.username =
                   Verdict(validateUsername(provider, value))]
  /\ UNCHANGED <<value, recordVars, allocVars>>

----------------------------------------------------------------------------
(* Credential codec and pre-save hook, lines 166-194 *)

NoSalt == 0
Salts == 1..NumSalts

HashThreshold == 6

Iterations == 10000

(* crypto.pbkdf2Sync(password, salt, iterations, keylen).toString('base64') *)
pbkdf2Sync(pw, s, iterations, keylen) == <<"pbkdf2", pw, s, iterations, keylen>>

(* Mutant: the password is hashed whether or not the record has a salt *)
hashPasswordAlways(this_salt, pw) ==
  IF pw # <<>> THEN pbkdf2Sync(pw, this_salt, Iterations, KeyLen) ELSE pw

(* Mutant: a tenth of the iterations *)
hashPasswordWeak(this_salt, pw) ==
  IF this_salt # NoSalt /\ pw # <<>>
  THEN pbkdf2Sync(pw, this_salt, Iterations \div 10, KeyLen) ELSE pw

hashPassword(this_salt, pw) ==
  IF this_salt # NoSalt /\ pw # <<>>
  THEN pbkdf2Sync(pw, this_salt, Iterations, KeyLen) ELSE pw

(* Mutant: the candidate is compared without being hashed *)
authenticateUnhashed(this_password, this_salt, pw) ==
  this_password = pw

authenticate(this_password, this_salt, pw) ==
  this_password = hashPassword(this_salt, pw)

ToLowerChar(c) == IF c = "U" THEN "u" ELSE c

toLowerCase(s) == [i \in 1..Len(s) |-> ToLowerChar(s[i])]

RECURSIVE trimLeft(_)
trimLeft(s) == IF s # <<>> /\ Head(s) = " " THEN trimLeft(Tail(s)) ELSE s

RECURSIVE trimRight(_)
trimRight(s) ==
  IF s # <<>> /\ s[Len(s)] = " " THEN trimRight(SubSeq(s, 1, Len(s) - 1)) ELSE s

trim(s) == trimRight(trimLeft(s))

(* crypto.createHash('md5').update(text).digest('hex') *)
md5(text) == <<"md5", text>>

NoEmailHash == <<>>

(* Mutant: a password of exactly HashThreshold characters is hashed too *)
preSaveInclusive(this_password, this_salt, this_email, fresh) ==
  LET hashes == this_password # <<>> /\ Length(this_password) >= HashThreshold
      salt1  == IF hashes THEN fresh ELSE this_salt
  IN  [salt      |-> salt1,
       password  |-> IF hashes THEN hashPassword(salt1, this_password)
                               ELSE this_password,
       emailHash |-> md5(trim(toLowerCase(this_email)))]

(* Mutant: the fingerprint is computed only on the branch that hashes the *)
(* password                                                              *)
preSaveFingerprintInBranch(this_password, this_salt, this_email, fresh) ==
  LET hashes == this_password # <<>> /\ Length(this_password) > HashThreshold
      salt1  == IF hashes THEN fresh ELSE this_salt
  IN  [salt      |-> salt1,
       password  |-> IF hashes THEN hashPassword(salt1, this_password)
                               ELSE this_password,
       emailHash |-> IF hashes THEN md5(trim(toLowerCase(this_email)))
                               ELSE NoEmailHash]

(* Mutant: the password is hashed before the new salt is installed *)
preSaveStaleSalt(this_password, this_salt, this_email, fresh) ==
  LET hashes == this_password # <<>> /\ Length(this_password) > HashThreshold
  IN  [salt      |-> IF hashes THEN fresh ELSE this_salt,
       password  |-> IF hashes THEN hashPassword(this_salt, this_password)
                               ELSE this_password,
       emailHash |-> md5(trim(toLowerCase(this_email)))]

(* The fields of the record after the pre-save hook, fresh being the bytes *)
(* crypto.randomBytes(16) returns                                          *)
preSave(this_password, this_salt, this_email, fresh) ==
  LET hashes == this_password # <<>> /\ Length(this_password) > HashThreshold
      salt1  == IF hashes THEN fresh ELSE this_salt
  IN  [salt      |-> salt1,
       password  |-> IF hashes THEN hashPassword(salt1, this_password)
                               ELSE this_password,
       emailHash |-> md5(trim(toLowerCase(this_email)))]

(* Raw passwords: the empty one, and for each length from just below the  *)
(* hashing threshold up to MaxPwLen one password and a one-character      *)
(* mutation of it                                                         *)
RawPasswords ==
  {<<>>}
    \cup {Fill("a", n) : n \in (HashThreshold - 1)..MaxPwLen}
    \cup {Fill("a", n - 1) \o <<"b">> : n \in (HashThreshold - 1)..MaxPwLen}

EmailChars == {"U", "u", " "}
Emails == StringsOver(EmailChars, MaxEmailLen)

(* The String schema type's setters of email: lowercase and trim (lines 65-67) *)
emailSetters(e) == trim(toLowerCase(e))

NoAuth == <<>>
NoHashCall == <<>>

(* A caller assigns this.password (password change, reset or signup) *)
SetPassword(p) ==
  /\ password' = p
  /\ rawAssigned' = p
  /\ savesSince' = 0
  /\ authLog' = NoAuth
  /\ hashLog' = NoHashCall
  /\ UNCHANGED <<provider, updated, salt, email, emailHash, saves,
                 emailAssigned, validatorVars, allocVars>>

(* A caller assigns this.email *)
SetEmail(e) ==
  /\ emailAssigned' = e
  /\ emailAssigned' # emailAssigned
  /\ email' = emailSetters(e)
  /\ authLog' = NoAuth
  /\ hashLog' = NoHashCall
  /\ UNCHANGED <<provider, updated, password, salt, emailHash, rawAssigned,
                 savesSince, saves, validatorVars, allocVars>>

(* The record is saved: UserSchema.pre('save') runs *)
Save ==
  /\ saves < MaxSaves
  /\ \E fresh \in Salts :
       LET after == preSave(password, salt, email, fresh)
       IN  /\ password' = after.password
           /\ salt' = after.salt
           /\ emailHash' = after.emailHash
  /\ saves' = saves + 1
  /\ savesSince' = savesSince + 1
  /\ authLog' = NoAuth
  /\ hashLog' = NoHashCall
  /\ UNCHANGED <<provider, updated, email, rawAssigned, emailAssigned,
                 validatorVars, allocVars>>

(* this.authenticate(candidate) *)
Authenticate(candidate) ==
  /\ authLog' = <<candidate, authenticate(password, salt, candidate)>>
  /\ authLog' # authLog
  /\ hashLog' = NoHashCall
  /\ UNCHANGED <<provider, updated, password, salt, email, emailHash,
                 rawAssigned, savesSince, saves, emailAssigned,
                 validatorVars, allocVars>>

(* this.hashPassword(pw), called on the record as it is *)
HashPassword(pw) ==
  /\ hashLog' = <<pw, hashPassword(salt, pw)>>
  /\ hashLog' # hashLog
  /\ authLog' = NoAuth
  /\ UNCHANGED <<provider, updated, password, salt, email, emailHash,
                 rawAssigned, savesSince, saves, emailAssigned,
                 validatorVars, allocVars>>

(* Values a caller may put into this.emailHash: the fingerprint of another *)
(* address, or text that is no fingerprint at all                          *)
SuppliedEmailHashes == {md5(<<"x">>), <<"x">>}

(* A caller assigns this.emailHash *)
SetEmailHash(h) ==
  /\ emailHash # h
  /\ emailHash' = h
  /\ authLog' = NoAuth
  /\ hashLog' = NoHashCall
  /\ UNCHANGED <<provider, updated, password, salt, email, rawAssigned,
                 savesSince, saves, emailAssigned, validatorVars, allocVars>>

----------------------------------------------------------------------------
(* findUniqueUsername, lines 199-216 *)

Calls == {1, 2}

Bases == {<<"a">>}

DigitChars == <<"0", "1", "2", "3", "4", "5", "6", "7", "8", "9">>

(* Number to string, as the + of a string and a number converts its number *)
RECURSIVE numberToString(_)
numberToString(n) ==
  IF n < 10 THEN <<DigitChars[n + 1]>>
  ELSE numberToString(n \div 10) \o <<DigitChars[(n % 10) + 1]>>

(* username + (suffix || ''), the suffix 0 standing for an absent suffix too *)
possibleUsername(username, sfx) ==
  username \o (IF sfx = 0 THEN <<>> ELSE numberToString(sfx))

(* Mutant: a suffix is skipped *)
nextSuffixSkipping(sfx) == sfx + 2

(* (suffix || 0) + 1 *)
nextSuffix(sfx) == sfx + 1

Usernames == {possibleUsername(b, n) : b \in Bases, n \in 0..MaxSuffix}

Null == <<"null">>

(* Mutant: the error of findOne is not looked at *)
callbackArgIgnoringErr(err, user, candidate) ==
  IF ~user THEN candidate ELSE <<"absent">>

(* The value handed to callback once findOne has answered (err, user), or *)
(* Absent when callback is not called                                     *)
Absent == <<"absent">>
callbackArg(err, user, candidate) ==
  IF ~err THEN (IF ~user THEN candidate ELSE Absent) ELSE Null

(* Mutant: the callback never calls findUniqueUsername again *)
recursesNever(err, user) == FALSE

(* Whether the callback of findOne invokes findUniqueUsername again *)
recurses(err, user) == ~err /\ user

(* Mutant: the query for the next suffix is issued along with this one *)
findOneSpeculative(c, username, sfx) ==
  /\ request' = [request EXCEPT ![c] =
                   Append(Append(@, [username |-> username, suffix |-> sfx]),
                          [username |-> username, suffix |-> sfx + 1])]
  /\ probes' = [probes EXCEPT ![c] =
                  Append(Append(@, possibleUsername(username, sfx)),
                         possibleUsername(username, sfx + 1))]

(* Mutant: the callback stores the username it hands out *)
storageAfterCallbackReserving(stored, arg) ==
  IF arg \in {<<"absent">>, <<"null">>} THEN stored ELSE stored \cup {arg}

(* The stored usernames after the callback of findOne has run: it writes *)
(* nothing                                                               *)
storageAfterCallback(stored, arg) == stored

(* _this.findOne({username: possibleUsername}, function(err, user) {...}) *)
findOne(c, username, sfx) ==
  /\ request' = [request EXCEPT ![c] =
                   Append(@, [username |-> username, suffix |-> sfx])]
  /\ probes' = [probes EXCEPT ![c] = Append(@, possibleUsername(username, sfx))]

(* A caller invokes User.findUniqueUsername(username, null, callback) *)
FindUniqueUsername(c, username) ==
  /\ pc[c] = "idle"
  /\ pc' = [pc EXCEPT ![c] = "waiting"]
  /\ base' = [base EXCEPT ![c] = username]
  /\ startStorage' = [startStorage EXCEPT ![c] = storage]
  /\ findOne(c, username, 0)
  /\ concurrent' = (concurrent \/ \E d \in Calls \ {c} : pc[d] = "waiting")
  /\ UNCHANGED <<storage, inserts, reply, result, answers, recordVars, validatorVars>>

(* The storage answers the oldest query of call c: with the record found or *)
(* not at this moment, or with an error                                     *)
FindOneAnswers(c, err) ==
  /\ request[c] # <<>>
  /\ LET q == Head(request[c])
     IN  reply' = [reply EXCEPT ![c] =
                     Append(@, [username |-> q.username, suffix |-> q.suffix,
                                err |-> err,
                                user |-> ~err /\ possibleUsername(q.username, q.suffix)
                                                    \in storage])]
  /\ request' = [request EXCEPT ![c] = Tail(@)]
  /\ UNCHANGED <<storage, inserts, pc, base, result, probes, answers, startStorage,
                 concurrent, recordVars, validatorVars>>

(* function(err, user) {...}: the callback handed to findOne runs *)
FindOneCallback(c) ==
  /\ reply[c] # <<>>
  /\ LET r == Head(reply[c])
         candidate == possibleUsername(r.username, r.suffix)
         arg == callbackArg(r.err, r.user, candidate)
     IN  /\ answers' = [answers EXCEPT ![c] =
                          Append(@, [username |-> candidate, err |-> r.err,
                                     user |-> r.user])]
         /\ IF recurses(r.err, r.user)
            THEN /\ findOne(c, r.username, nextSuffix(r.suffix))
                 /\ UNCHANGED <<result, pc>>
            ELSE /\ UNCHANGED <<request, probes>>
                 /\ result' = [result EXCEPT ![c] =
                                 IF arg = Absent THEN @ ELSE Append(@, arg)]
                 /\ pc' = [pc EXCEPT ![c] = IF arg = Absent THEN @ ELSE "done"]
         /\ storage' = storageAfterCallback(storage, arg)
  /\ reply' = [reply EXCEPT ![c] = Tail(@)]
  /\ UNCHANGED <<inserts, base, startStorage, concurrent, recordVars, validatorVars>>

(* Another request saves a User record under a username not yet stored *)
(* (username is unique, line 105)                                      *)
InsertUser(name) ==
  /\ name \notin storage
  /\ inserts < MaxInserts
  /\ storage' = storage \cup {name}
  /\ inserts' = inserts + 1
  /\ UNCHANGED <<pc, base, request, reply, result, probes, answers,
                 startStorage, concurrent, recordVars, validatorVars>>

----------------------------------------------------------------------------
(* Specifications *)

RecordDefaults ==
  /\ provider \in Providers
  /\ updated = FALSE
  /\ password = <<>>
  /\ salt = NoSalt
  /\ email = <<>>
  /\ emailHash = NoEmailHash
  /\ rawAssigned = <<>>
  /\ savesSince = 0
  /\ saves = 0
  /\ authLog = NoAuth
  /\ hashLog = NoHashCall
  /\ emailAssigned = <<>>

AllocIdle ==
  /\ pc = [c \in Calls |-> "idle"]
  /\ base = [c \in Calls |-> <<>>]
  /\ request = [c \in Calls |-> <<>>]
  /\ reply = [c \in Calls |-> <<>>]
  /\ result = [c \in Calls |-> <<>>]
  /\ probes = [c \in Calls |-> <<>>]
  /\ answers = [c \in Calls |-> <<>>]
  /\ startStorage = [c \in Calls |-> {}]
  /\ inserts = 0
  /\ concurrent = FALSE

(* The record's credentials: password assignments, saves, authentications *)
(* and calls of hashPassword                                              *)
InitRecord ==
  /\ RecordDefaults
  /\ value = <<>>
  /\ verdict = NoVerdict
  /\ storage = {}
  /\ AllocIdle

NextRecord ==
  \/ \E p \in RawPasswords : SetPassword(p)
  \/ Save
  \/ \E candidate \in RawPasswords : Authenticate(candidate)
  \/ \E pw \in RawPasswords : HashPassword(pw)

SpecRecord == InitRecord /\ [][NextRecord]_vars

(* The record's e-mail fingerprint: assignments of email, emailHash and *)
(* password, and saves                                                  *)
NextEmail ==
  \/ \E e \in Emails : SetEmail(e)
  \/ \E h \in SuppliedEmailHashes : SetEmailHash(h)
  \/ \E p \in RawPasswords : SetPassword(p)
  \/ Save

SpecEmail == InitRecord /\ [][NextEmail]_vars

(* The validators, on every argument of Values and every record context *)
InitValidators ==
  /\ RecordDefaults
  /\ value \in Values
  /\ verdict = NoVerdict
  /\ storage = {}
  /\ AllocIdle

SetUpdated ==
  /\ ~updated
  /\ updated' = TRUE
  /\ verdict' = NoVerdict
  /\ UNCHANGED <<provider, password, salt, email, emailHash, rawAssigned,
                 savesSince, saves, authLog, hashLog, emailAssigned, value,
                 allocVars>>

NextValidators ==
  \/ ValidateProperty
  \/ ValidatePassword
  \/ ValidateUsername
  \/ SetUpdated

SpecValidators == InitValidators /\ [][NextValidators]_vars

(* The allocator: calls of findUniqueUsername against a storage that other *)
(* requests may add to                                                     *)
InitAllocator ==
  /\ RecordDefaults
  /\ provider = "local"
  /\ value = <<>>
  /\ verdict = NoVerdict
  /\ storage \in SUBSET Usernames
  /\ AllocIdle

NextAllocator ==
  \/ \E c \in Calls, username \in Bases : FindUniqueUsername(c, username)
  \/ \E c \in Calls, err \in BOOLEAN : FindOneAnswers(c, err)
  \/ \E c \in Calls : FindOneCallback(c)
  \/ \E name \in Usernames : InsertUser(name)

SpecAllocator == InitAllocator /\ [][NextAllocator]_vars

(* The allocator with a storage that answers every query and an event loop *)
(* that runs every callback whose answer has arrived                       *)
SpecAllocatorFair ==
  /\ SpecAllocator
  /\ \A c \in Calls : WF_vars(\E err \in BOOLEAN : FindOneAnswers(c, err))
  /\ \A c \in Calls : WF_vars(FindOneCallback(c))

----------------------------------------------------------------------------
(* Claims about the validators, under SpecValidators *)

PropertyPasses == verdict.property = "pass"
PasswordPasses == verdict.password = "pass"
UsernamePasses == verdict.username = "pass"

ContainsDoubleDot(s) ==
  \E i \in 1..(Len(s) - 1) : s[i] = "." /\ s[i + 1] = "."

(* C2: for a local record validateUsername accepts a value exactly when its *)
(* length is in 3..32, its characters are all of [a-z0-9._-], it is not in  *)
(* the reserved list and it does not contain "..".                          *)
C2_UsernameRule ==
  (verdict.username # "none" /\ provider = "local") =>
    (UsernamePasses <=>
       /\ Len(value) \in 3..32
       /\ \A i \in 1..Len(value) : value[i] \in UsernameChars
       /\ \A i \in 1..Len(illegalUsernames) : illegalUsernames[i] # value
       /\ ~ContainsDoubleDot(value))

(* C6: an empty firstName/lastName/email passes for a non-local record      *)
(* while updated is unset and fails once it is set; for a local record an   *)
(* empty value always fails; a non-empty value always passes.               *)
C6_PropertyRule ==
  verdict.property # "none" =>
    /\ (provider # "local" /\ value = <<>> /\ ~updated) => PropertyPasses
    /\ (provider # "local" /\ value = <<>> /\ updated) => ~PropertyPasses
    /\ (provider = "local" /\ value = <<>>) => ~PropertyPasses
    /\ value # <<>> => PropertyPasses

C6_Witness ==
  /\ verdict.property = "fail"
  /\ provider # "local"
  /\ updated
  /\ value = <<>>

(* C7, as stated: validateLocalStrategyProperty passes if the provider is   *)
(* not local and updated is set, or if the value is non-empty.              *)
C7_Original ==
  (verdict.property # "none" /\ ((provider # "local" /\ updated) \/ value # <<>>))
    => PropertyPasses

(* C7, amended: validateLocalStrategyProperty passes exactly when the       *)
(* provider is not local and updated is still unset, or the value is        *)
(* non-empty.                                                               *)
C7_Amended ==
  verdict.property # "none" =>
    (PropertyPasses <=> ((provider # "local" /\ ~updated) \/ value # <<>>))

C7_Witness ==
  /\ PropertyPasses
  /\ provider # "local"
  /\ ~updated
  /\ value = <<>>

----------------------------------------------------------------------------
(* Claims about the record, under SpecRecord *)

(* C3: a raw password of more than 6 characters assigned and saved once     *)
(* authenticates, and no other candidate does.                              *)
C3_RoundTrip ==
  (authLog # NoAuth /\ savesSince = 1 /\ Len(rawAssigned) > 6) =>
    (authLog[2] <=> authLog[1] = rawAssigned)

C3_Witness ==
  /\ authLog # NoAuth
  /\ savesSince = 1
  /\ Len(rawAssigned) > 6
  /\ authLog[1] = rawAssigned
  /\ authLog[2]

(* C4: saves after the one that hashed the password leave password and salt *)
(* as they are, so the raw password assigned still authenticates after any  *)
(* number of saves.                                                         *)
C4_ResaveKeepsCredential ==
  (authLog # NoAuth /\ savesSince >= 1 /\ Len(rawAssigned) > 6
     /\ authLog[1] = rawAssigned) => authLog[2]

(* C5, as stated: the salt is present exactly when the password field holds *)
(* a hash derived with it.                                                  *)
C5_Original ==
  salt # NoSalt <=> (IsHash(password) /\ password[3] = salt)

(* C5, amended: a password field holding a derived hash always comes with   *)
(* the salt the hash was derived with.                                      *)
C5_HashHasItsSalt ==
  IsHash(password) => (salt # NoSalt /\ password[3] = salt)

C5_Witness ==
  /\ IsHash(password)
  /\ password[2] = rawAssigned
  /\ saves = 2
  /\ savesSince = 1

----------------------------------------------------------------------------
(* Claims about findUniqueUsername, under SpecAllocator *)

(* base if it is free in S, else base + N for the least N >= 1 free in S *)
LowestFree(b, S) ==
  IF b \notin S THEN b
  ELSE LET free(n) == possibleUsername(b, n) \notin S
           N == CHOOSE n \in 1..(Cardinality(S) + 1) :
                  free(n) /\ \A m \in 1..(n - 1) : ~free(m)
       IN  possibleUsername(b, N)

NoError(c) == \A i \in 1..Len(answers[c]) : ~answers[c][i].err

(* C1: against a storage that did not change during the call and never      *)
(* errored, the callback is handed base when it is free and otherwise       *)
(* base + N for the smallest N >= 1 that is free.                           *)
C1_LowestFree ==
  \A c \in Calls :
    (pc[c] = "done" /\ storage = startStorage[c] /\ NoError(c)) =>
      result[c] = <<LowestFree(base[c], storage)>>

C1_Witness ==
  \E c \in Calls :
    /\ pc[c] = "done"
    /\ storage = startStorage[c]
    /\ NoError(c)
    /\ {<<"a">>, <<"a", "1">>, <<"a", "2">>} \subseteq storage
    /\ result[c] = << <<"a", "3">> >>

(* C9: once a lookup has reported an error the callback has been handed     *)
(* null and nothing else, no probe was issued after the failed one, and     *)
(* nothing is outstanding.                                                  *)
C9_ErrorYieldsNull ==
  \A c \in Calls :
    (\E i \in 1..Len(answers[c]) : answers[c][i].err) =>
      /\ pc[c] = "done"
      /\ result[c] = <<Null>>
      /\ answers[c][Len(answers[c])].err
      /\ Len(probes[c]) = Len(answers[c])
      /\ request[c] = <<>>
      /\ reply[c] = <<>>

C9_Witness ==
  \E c \in Calls :
    /\ Len(answers[c]) >= 3
    /\ answers[c][Len(answers[c])].err
    /\ result[c] = <<Null>>

(* C10: a call has at most one lookup outstanding; its probes are base,     *)
(* base1, base2, ... in this order; and each probe but the first was issued *)
(* after the answer to the one before it was handled and reported a record. *)
C10_Sequential ==
  \A c \in Calls :
    /\ Len(request[c]) + Len(reply[c]) <= 1
    /\ Len(probes[c]) = Len(answers[c]) + Len(request[c]) + Len(reply[c])
    /\ \A i \in 1..Len(probes[c]) :
         probes[c][i] = possibleUsername(base[c], i - 1)
    /\ \A i \in 1..(Len(probes[c]) - 1) :
         /\ i <= Len(answers[c])
         /\ answers[c][i] = [username |-> probes[c][i], err |-> FALSE, user |-> TRUE]

C10_Witness ==
  \E c \in Calls :
    /\ Len(probes[c]) = 3
    /\ Len(request[c]) = 1
    /\ Len(answers[c]) = 2

(* A call that has been handed a username *)
Allocated(c) == pc[c] = "done" /\ Len(result[c]) = 1 /\ result[c][1] # Null

(* C11: the allocator reserves nothing: as long as no username has been     *)
(* written, any two calls for the same base that have been handed a         *)
(* username have been handed the same one, also when they ran concurrently. *)
C11_SameCandidate ==
  \A c, d \in Calls :
    (inserts = 0 /\ Allocated(c) /\ Allocated(d) /\ base[c] = base[d]) =>
      result[c] = result[d]

C11_Witness ==
  /\ concurrent
  /\ inserts = 0
  /\ Allocated(1)
  /\ Allocated(2)
  /\ base[1] = base[2]
  /\ result[1] = result[2]
  /\ Len(probes[1]) >= 2

AllocatorVars == <<pc, base, request, reply, result, probes, answers, startStorage>>

(* C12: no step of findUniqueUsername (the call, the storage answering, the *)
(* callback with whatever outcome) changes the set of stored records.       *)
C12_ReadOnly ==
  [][AllocatorVars' # AllocatorVars => storage' = storage]_vars

C12_Witness ==
  /\ inserts = 0
  /\ \E c \in Calls : Allocated(c) /\ Len(probes[c]) >= 2
  /\ \E c \in Calls : pc[c] = "done" /\ result[c] = <<Null>>
  /\ storage = startStorage[1]
  /\ storage = startStorage[2]

----------------------------------------------------------------------------
(* Further claims about the record, under SpecRecord *)

Saved == saves' = saves + 1

RecordFields == <<provider, updated, password, salt, email, emailHash>>

(* C13: a save of a record whose password field has more than 6 characters *)
(* installs a salt drawn at that save and replaces the field by its hash    *)
(* under that salt: the field no longer holds what it held.                 *)
C13_SaveHashesUnderNewSalt ==
  [][(Saved /\ Length(password) > 6) =>
       /\ salt' \in Salts
       /\ password' = <<"pbkdf2", password, salt', 10000, 64>>
       /\ password' # password]_vars

C13_Witness ==
  /\ saves = 2
  /\ savesSince = 1
  /\ Len(rawAssigned) = 7
  /\ salt # NoSalt
  /\ password = <<"pbkdf2", rawAssigned, salt, 10000, 64>>

(* C14: a save of a record whose password field has at most 6 characters    *)
(* leaves password and salt as they were; 7 characters are hashed, though   *)
(* the validator of a local record, whose threshold is 8, rejects them.     *)
C14_ShortPasswordUntouched ==
  [][Saved =>
       /\ Length(password) <= 6 => (password' = password /\ salt' = salt)
       /\ Length(password) = 7 =>
            /\ IsHash(password')
            /\ ~validateLocalStrategyPassword("local", password)]_vars

C14_Witness ==
  /\ savesSince = 1
  /\ Len(rawAssigned) = 6
  /\ password = rawAssigned
  /\ salt # NoSalt

(* C16: hashPassword returns its argument when the record has no salt or    *)
(* the argument is empty, and otherwise the 64-byte key derived from the    *)
(* argument and the salt with 10000 iterations; it changes no field.        *)
C16_HashPassword ==
  /\ [](hashLog # NoHashCall =>
          IF salt = NoSalt \/ hashLog[1] = <<>>
          THEN hashLog[2] = hashLog[1]
          ELSE /\ hashLog[2] = <<"pbkdf2", hashLog[1], salt, 10000, 64>>
               /\ Length(hashLog[2]) = 88)
  /\ [][(hashLog' # NoHashCall /\ hashLog' # hashLog) =>
          RecordFields' = RecordFields]_vars

C16_Witness ==
  /\ hashLog # NoHashCall
  /\ salt # NoSalt
  /\ hashLog[1] # <<>>
  /\ IsHash(hashLog[2])

(* C18: a save of a local record whose password field passes               *)
(* validateLocalStrategyPassword ends with the field holding a hash derived *)
(* with the salt then present.                                              *)
C18_ValidatedLocalSaveHashes ==
  [][(Saved /\ provider = "local"
        /\ validateLocalStrategyPassword(provider, password)) =>
       /\ IsHash(password')
       /\ salt' # NoSalt
       /\ password'[3] = salt']_vars

C18_Witness ==
  /\ provider = "local"
  /\ savesSince = 1
  /\ Len(rawAssigned) = 8
  /\ IsHash(password)
  /\ password[2] = rawAssigned

(* C19: on a record without salt authenticate returns true exactly for the  *)
(* candidate equal to the password field, the empty candidate included when *)
(* the field is empty; authenticate changes no field.                       *)
C19_NoSaltAuthenticate ==
  /\ []((authLog # NoAuth /\ salt = NoSalt) =>
          (authLog[2] <=> authLog[1] = password))
  /\ [][(authLog' # NoAuth /\ authLog' # authLog) =>
          RecordFields' = RecordFields]_vars

C19_Witness ==
  /\ salt = NoSalt
  /\ password = <<>>
  /\ authLog = << <<>>, TRUE >>

----------------------------------------------------------------------------
(* Claim about the e-mail fingerprint, under SpecEmail *)

(* e without the spaces around it and in lower case *)
Canonical(e) ==
  LET inked == {i \in 1..Len(e) : e[i] # " "}
      first == CHOOSE i \in inked : \A j \in inked : i <= j
      last  == CHOOSE i \in inked : \A j \in inked : j <= i
  IN  IF inked = {} THEN <<>>
      ELSE [i \in 1..(last - first + 1) |->
              IF e[first + i - 1] = "U" THEN "u" ELSE e[first + i - 1]]

(* C15: after every save emailHash is the fingerprint of the record's       *)
(* e-mail trimmed and in lower case, whatever emailHash held before and     *)
(* whether or not the password was hashed; so addresses assigned that       *)
(* differ only in case or surrounding spaces end with the same emailHash.   *)
C15_EmailHashOnSave ==
  [][Saved =>
       /\ emailHash' = <<"md5", trim(toLowerCase(email))>>
       /\ emailHash' = <<"md5", Canonical(emailAssigned)>>]_vars

C15_Witness ==
  /\ saves = 2
  /\ emailAssigned = <<" ", "U">>
  /\ emailHash = <<"md5", <<"u">> >>
  /\ ~IsHash(password)

----------------------------------------------------------------------------
(* Claim about the termination of findUniqueUsername, under SpecAllocatorFair *)

(* C17: a call whose lookups are all answered ends by invoking its callback, *)
(* exactly once; against a storage not written during the call it has then   *)
(* issued at most one probe more than there are stored usernames, a number   *)
(* no cap keeps below that.                                                  *)
C17_Terminates ==
  /\ [](\A c \in Calls :
          /\ Len(result[c]) <= 1
          /\ pc[c] = "done" <=> Len(result[c]) = 1
          /\ pc[c] = "done" => (request[c] = <<>> /\ reply[c] = <<>>)
          /\ storage = startStorage[c] =>
               Len(probes[c]) <= Cardinality(storage) + 1)
  /\ \A c \in Calls : (pc[c] = "waiting") ~> (pc[c] = "done")

C17_Witness ==
  \E c \in Calls :
    /\ Allocated(c)
    /\ storage = startStorage[c]
    /\ Cardinality(storage) = 4
    /\ Len(probes[c]) = Cardinality(storage) + 1

====
